---- MODULE Spec2Model ----
(***************************************************************************)
(* Model of src/util/check.cpp: the recoverable invariant violation        *)
(* (NonFatalCheckError) and the fatal assertion failure (assertion_fail).  *)
(* Text is a sequence of one-character strings, so that formatting is      *)
(* computed character by character and not assumed.                        *)
(***************************************************************************)
EXTENDS Integers, Sequences, FiniteSets

\* Number of threads of the process that call into check.cpp.
NumThreads == 2

Threads == 1..NumThreads

\* The backtick character. A string literal that holds a backtick has to hold
\* the closing quote too, so the character is taken as the head of the pair.
Backtick == Head("`'")

(***************************************************************************)
(* State                                                                   *)
(***************************************************************************)

VARIABLES
    pc,          \* pc[t]: "caller" (outside check.cpp), "fwrite" (before line 27), "abort" (before line 28)
    frame,       \* frame[t]: the arguments and results of thread t's latest call
    stderr,      \* the bytes that reached the standard error stream
    process,     \* "running" or "terminated"
    exitStatus,  \* "none" while running, then how the process ended
    aborter      \* the set holding the thread whose std::abort() ended the process

vars == <<pc, frame, stderr, process, exitStatus, aborter>>

(***************************************************************************)
(* Text constants of check.cpp                                             *)
(***************************************************************************)

\* Variant of NonFatalCheckError_fmt: the trailing newline is left out.
NonFatalCheckError_fmt_no_newline ==
    <<"I", "n", "t", "e", "r", "n", "a", "l", " ", "b", "u", "g", " ",
      "d", "e", "t", "e", "c", "t", "e", "d", ":", " ", "\"", "%", "s", "\"", "\n",
      "%", "s", ":", "%", "d", " ", "(", "%", "s", ")", "\n",
      "P", "l", "e", "a", "s", "e", " ", "r", "e", "p", "o", "r", "t", " ",
      "t", "h", "i", "s", " ", "i", "s", "s", "u", "e", " ", "h", "e", "r", "e", ":", " ",
      "%", "s">>

\* "Internal bug detected: \"%s\"\n%s:%d (%s)\nPlease report this issue here: %s\n"
NonFatalCheckError_fmt ==
    <<"I", "n", "t", "e", "r", "n", "a", "l", " ", "b", "u", "g", " ",
      "d", "e", "t", "e", "c", "t", "e", "d", ":", " ", "\"", "%", "s", "\"", "\n",
      "%", "s", ":", "%", "d", " ", "(", "%", "s", ")", "\n",
      "P", "l", "e", "a", "s", "e", " ", "r", "e", "p", "o", "r", "t", " ",
      "t", "h", "i", "s", " ", "i", "s", "s", "u", "e", " ", "h", "e", "r", "e", ":", " ",
      "%", "s", "\n">>

\* Variant of assertion_fail_fmt: the space between line and func is left out.
assertion_fail_fmt_no_space ==
    <<"%", "s", ":", "%", "s", "%", "s", ":", " ",
      "A", "s", "s", "e", "r", "t", "i", "o", "n", " ", Backtick, "%", "s", "'", " ",
      "f", "a", "i", "l", "e", "d", ".", "\n">>

\* "%s:%s %s: Assertion `%s' failed.\n"
assertion_fail_fmt ==
    <<"%", "s", ":", "%", "s", " ", "%", "s", ":", " ",
      "A", "s", "s", "e", "r", "t", "i", "o", "n", " ", Backtick, "%", "s", "'", " ",
      "f", "a", "i", "l", "e", "d", ".", "\n">>

\* The build-time bug-report destination, "https://github.com/bitcoin/bitcoin/issues".
PACKAGE_BUGREPORT ==
    <<"h", "t", "t", "p", "s", ":", "/", "/", "g", "i", "t", "h", "u", "b", ".", "c", "o", "m", "/",
      "b", "i", "t", "c", "o", "i", "n", "/", "b", "i", "t", "c", "o", "i", "n", "/",
      "i", "s", "s", "u", "e", "s">>

(***************************************************************************)
(* strprintf: the format engine                                            *)
(***************************************************************************)

Digits == <<"0", "1", "2", "3", "4", "5", "6", "7", "8", "9">>

RECURSIVE DecimalNat(_)
\* The digits of a non-negative integer, most significant first.
DecimalNat(n) ==
    IF n < 10 THEN <<Digits[n + 1]>>
    ELSE DecimalNat(n \div 10) \o <<Digits[(n % 10) + 1]>>

\* An int streamed in base ten: a minus sign, then the digits.
Decimal(n) == IF n < 0 THEN <<"-">> \o DecimalNat(0 - n) ELSE DecimalNat(n)

StrArg(s) == [type |-> "str", val |-> s]

IntArg(n) == [type |-> "int", val |-> n]

\* One argument as the format engine streams it: the conversion letter does
\* not choose the rendering, the argument's type does.
FormatValue(a) == IF a.type = "int" THEN Decimal(a.val) ELSE a.val

RECURSIVE FormatFrom(_, _, _, _)
\* The output for fmt[i..], the next unused argument being args[k].
FormatFrom(fmt, i, args, k) ==
    IF i > Len(fmt) THEN <<>>
    ELSE IF fmt[i] = "%" /\ i < Len(fmt)
         THEN IF fmt[i + 1] = "%"
              THEN <<"%">> \o FormatFrom(fmt, i + 2, args, k)
              ELSE FormatValue(args[k]) \o FormatFrom(fmt, i + 2, args, k + 1)
         ELSE <<fmt[i]>> \o FormatFrom(fmt, i + 1, args, k)

strprintf(fmt, args) == FormatFrom(fmt, 1, args, 1)

(***************************************************************************)
(* The two texts check.cpp builds                                          *)
(***************************************************************************)

\* Variant of NonFatalCheckError_what: msg and file are passed in each
\* other's place.
NonFatalCheckError_what_swapped(msg, file, line, func) ==
    strprintf(NonFatalCheckError_fmt,
              <<StrArg(file), StrArg(msg), IntArg(line), StrArg(func),
                StrArg(PACKAGE_BUGREPORT)>>)

\* Variant of NonFatalCheckError_what: the text also carries a process-wide
\* count, here of the violations the threads hold at the time of the call.
NonFatalCheckError_what_counted(msg, file, line, func) ==
    strprintf(NonFatalCheckError_fmt,
              <<StrArg(msg), StrArg(file), IntArg(line), StrArg(func),
                StrArg(PACKAGE_BUGREPORT)>>)
    \o Decimal(Cardinality({u \in Threads : frame[u].op = "NonFatalCheckError"}))

\* The what() text of a NonFatalCheckError.
NonFatalCheckError_what(msg, file, line, func) ==
    strprintf(NonFatalCheckError_fmt,
              <<StrArg(msg), StrArg(file), IntArg(line), StrArg(func),
                StrArg(PACKAGE_BUGREPORT)>>)

\* The local str of assertion_fail.
assertion_fail_str(file, line, func, assertion) ==
    strprintf(assertion_fail_fmt,
              <<StrArg(file), IntArg(line), StrArg(func), StrArg(assertion)>>)

(***************************************************************************)
(* Call-site inputs                                                        *)
(***************************************************************************)

S_empty == <<>>

S_a == <<"a">>

S_pool_cc == <<"p", "o", "o", "l", ".", "c", "c">>

S_Pool_take == <<"P", "o", "o", "l", ":", ":", "t", "a", "k", "e">>

S_Pool_release == <<"P", "o", "o", "l", ":", ":", "r", "e", "l", "e", "a", "s", "e">>

\* "pool size negative"
S_pool_size_negative ==
    <<"p", "o", "o", "l", " ", "s", "i", "z", "e", " ", "n", "e", "g", "a", "t", "i", "v", "e">>

\* "a\n%s": an embedded newline and a conversion inside an argument
S_a_nl_pct_s == <<"a", "\n", "%", "s">>

\* "refcount > 0"
S_refcount_gt_0 == <<"r", "e", "f", "c", "o", "u", "n", "t", " ", ">", " ", "0">>

\* (file, line, func) of the call sites that construct a NonFatalCheckError:
\* empty names with line 0, scenario A of the specification, and INT_MAX
\* with file and func equal to each other.
ViolationSites ==
    { <<S_empty, 0, S_empty>>,
      <<S_pool_cc, 42, S_Pool_take>>,
      <<S_a, 2147483647, S_a>> }

\* (file, line, func) of the call sites that call assertion_fail: empty names
\* with line 0, scenario B of the specification, and a negative line.
AssertionSites ==
    { <<S_empty, 0, S_empty>>,
      <<S_pool_cc, 77, S_Pool_release>>,
      <<S_a, -1, S_empty>> }

Messages == { S_empty, S_pool_size_negative, S_a_nl_pct_s }

Assertions == { S_empty, S_refcount_gt_0 }

(***************************************************************************)
(* Initial state                                                           *)
(***************************************************************************)

NoFrame ==
    [op |-> "none", msg |-> <<>>, assertion |-> <<>>, file |-> <<>>, line |-> 0,
     func |-> <<>>, what |-> <<>>, str |-> <<>>, nwrites |-> 0, count |-> 0, written |-> 0]

Init ==
    /\ pc = [t \in Threads |-> "caller"]
    /\ frame = [t \in Threads |-> NoFrame]
    /\ stderr = <<>>
    /\ process = "running"
    /\ exitStatus = "none"
    /\ aborter = {}

(***************************************************************************)
(* Operations                                                              *)
(***************************************************************************)

\* Variant of NonFatalCheckError: the constructor also logs the text to the
\* standard error stream.
NonFatalCheckError_logging(t, msg, file, line, func) ==
    /\ process = "running"
    /\ pc[t] = "caller"
    /\ frame' = [frame EXCEPT ![t] =
                    [NoFrame EXCEPT !.op = "NonFatalCheckError", !.msg = msg,
                                    !.file = file, !.line = line, !.func = func,
                                    !.what = NonFatalCheckError_what(msg, file, line, func)]]
    /\ stderr' = stderr \o NonFatalCheckError_what(msg, file, line, func)
    /\ UNCHANGED <<pc, process, exitStatus, aborter>>

\* Thread t constructs a NonFatalCheckError and keeps it as its latest value.
NonFatalCheckError(t, msg, file, line, func) ==
    /\ process = "running"
    /\ pc[t] = "caller"
    /\ frame' = [frame EXCEPT ![t] =
                    [NoFrame EXCEPT !.op = "NonFatalCheckError", !.msg = msg,
                                    !.file = file, !.line = line, !.func = func,
                                    !.what = NonFatalCheckError_what(msg, file, line, func)]]
    /\ UNCHANGED <<pc, stderr, process, exitStatus, aborter>>

\* Thread t enters assertion_fail and formats str (line 26).
assertion_fail(t, file, line, func, assertion) ==
    /\ process = "running"
    /\ pc[t] = "caller"
    /\ frame' = [frame EXCEPT ![t] =
                    [NoFrame EXCEPT !.op = "assertion_fail", !.assertion = assertion,
                                    !.file = file, !.line = line, !.func = func,
                                    !.str = assertion_fail_str(file, line, func, assertion)]]
    /\ pc' = [pc EXCEPT ![t] = "fwrite"]
    /\ UNCHANGED <<stderr, process, exitStatus, aborter>>

\* What one fwrite of size bytes to the unbuffered stream can return: nothing
\* written, a short write, or all of it.
FwriteOutcomes(size) == {0, size \div 2, size}

\* Variant of fwrite: a short write is retried once before going on.
fwrite_retrying(t) ==
    /\ process = "running"
    /\ pc[t] = "fwrite"
    /\ \E n \in FwriteOutcomes(Len(frame[t].str)) :
          /\ stderr' = stderr \o SubSeq(frame[t].str, 1, n)
          /\ frame' = [frame EXCEPT ![t].nwrites = @ + 1,
                                    ![t].count = Len(frame[t].str),
                                    ![t].written = n]
          /\ pc' = [pc EXCEPT ![t] =
                       IF n < Len(frame[t].str) /\ frame[t].nwrites = 0
                       THEN "fwrite" ELSE "abort"]
    /\ UNCHANGED <<process, exitStatus, aborter>>

\* Line 27: one fwrite of str.size() bytes; its return value is discarded.
fwrite(t) ==
    /\ process = "running"
    /\ pc[t] = "fwrite"
    /\ \E n \in FwriteOutcomes(Len(frame[t].str)) :
          /\ stderr' = stderr \o SubSeq(frame[t].str, 1, n)
          /\ frame' = [frame EXCEPT ![t].nwrites = @ + 1,
                                    ![t].count = Len(frame[t].str),
                                    ![t].written = n]
    /\ pc' = [pc EXCEPT ![t] = "abort"]
    /\ UNCHANGED <<process, exitStatus, aborter>>

\* Variant of std_abort: control goes back to the caller.
std_abort_returning(t) ==
    /\ process = "running"
    /\ pc[t] = "abort"
    /\ pc' = [pc EXCEPT ![t] = "caller"]
    /\ frame' = [frame EXCEPT ![t] = NoFrame]
    /\ UNCHANGED <<stderr, process, exitStatus, aborter>>

\* Variant of std_abort: the process is ended only when the write was complete.
std_abort_if_written(t) ==
    /\ process = "running"
    /\ pc[t] = "abort"
    /\ frame[t].written = frame[t].count
    /\ process' = "terminated"
    /\ exitStatus' = "SIGABRT"
    /\ aborter' = {t}
    /\ UNCHANGED <<pc, frame, stderr>>

\* Variant of std_abort: a clean exit(0) in place of the abort.
std_abort_clean_exit(t) ==
    /\ process = "running"
    /\ pc[t] = "abort"
    /\ process' = "terminated"
    /\ exitStatus' = "EXIT_SUCCESS"
    /\ aborter' = {t}
    /\ UNCHANGED <<pc, frame, stderr>>

\* Variant of std_abort: only the calling thread ends, the process goes on.
std_abort_thread_only(t) ==
    /\ process = "running"
    /\ pc[t] = "abort"
    /\ aborter = {}
    /\ aborter' = {t}
    /\ UNCHANGED <<pc, frame, stderr, process, exitStatus>>

\* Line 28: std::abort() raises SIGABRT and the whole process ends.
std_abort(t) ==
    /\ process = "running"
    /\ pc[t] = "abort"
    /\ process' = "terminated"
    /\ exitStatus' = "SIGABRT"
    /\ aborter' = {t}
    /\ UNCHANGED <<pc, frame, stderr>>

Next ==
    \E t \in Threads :
       \/ \E s \in ViolationSites, m \in Messages : NonFatalCheckError(t, m, s[1], s[2], s[3])
       \/ \E s \in AssertionSites, a \in Assertions : assertion_fail(t, s[1], s[2], s[3], a)
       \/ fwrite(t)
       \/ std_abort(t)

Spec == Init /\ [][Next]_vars

\* A thread inside assertion_fail is runnable straight-line code: the
\* scheduler eventually runs its next statement.
FairSpec == Spec /\ \A t \in Threads : WF_vars(fwrite(t) \/ std_abort(t))

(***************************************************************************)
(* The texts the specification prescribes, written out piece by piece      *)
(***************************************************************************)

\* "Internal bug detected: \""
ViolationHead ==
    <<"I", "n", "t", "e", "r", "n", "a", "l", " ", "b", "u", "g", " ",
      "d", "e", "t", "e", "c", "t", "e", "d", ":", " ", "\"">>

\* ")\nPlease report this issue here: "
ViolationReport ==
    <<")", "\n", "P", "l", "e", "a", "s", "e", " ", "r", "e", "p", "o", "r", "t", " ",
      "t", "h", "i", "s", " ", "i", "s", "s", "u", "e", " ", "h", "e", "r", "e", ":", " ">>

\* ": Assertion "
AssertionWord == <<":", " ", "A", "s", "s", "e", "r", "t", "i", "o", "n", " ">>

\* " failed.\n"
AssertionFailed == <<" ", "f", "a", "i", "l", "e", "d", ".", "\n">>

\* The decimal form of the line numbers of the call sites, digit by digit.
DecimalForm(n) ==
    CASE n = 0 -> <<"0">>
      [] n = 42 -> <<"4", "2">>
      [] n = 77 -> <<"7", "7">>
      [] n = 2147483647 -> <<"2", "1", "4", "7", "4", "8", "3", "6", "4", "7">>
      [] n = -1 -> <<"-", "1">>

\* The rendered text prescribed for the violation recorded in frame f.
ViolationText(f) ==
    ViolationHead \o f.msg \o <<"\"", "\n">> \o f.file \o <<":">> \o DecimalForm(f.line)
    \o <<" ", "(">> \o f.func \o ViolationReport \o PACKAGE_BUGREPORT \o <<"\n">>

\* The diagnostic for the assertion_fail call recorded in frame f, the
\* assertion text between the characters open and close.
AssertionText(f, open, close) ==
    f.file \o <<":">> \o DecimalForm(f.line) \o <<" ">> \o f.func \o AssertionWord
    \o <<open>> \o f.assertion \o <<close>> \o AssertionFailed

\* Thread t holds a NonFatalCheckError it constructed.
Holding(t) == frame[t].op = "NonFatalCheckError"

\* Thread t is inside assertion_fail.
InFatal(t) == pc[t] # "caller"

\* Thread t's fwrite has returned.
Wrote(t) == pc[t] = "abort"

\* Thread t is the only one whose fwrite has returned, and it wrote all of str.
OnlyFullWriter(t) ==
    /\ Wrote(t)
    /\ frame[t].written = frame[t].count
    /\ \A u \in Threads \ {t} : ~Wrote(u)

\* sub occurs in text at position i.
OccursAt(sub, text, i) ==
    /\ i >= 1
    /\ i + Len(sub) - 1 <= Len(text)
    /\ \A j \in 1..Len(sub) : text[i + j - 1] = sub[j]

\* The number of positions of text at which sub occurs.
Occurrences(sub, text) ==
    Cardinality({i \in 1..(Len(text) + 1) : OccursAt(sub, text, i)})

\* The five pieces occur in text one after the other, without overlap.
InOrder(pieces, text) ==
    \E p1 \in 1..(Len(text) + 1) :
       /\ OccursAt(pieces[1], text, p1)
       /\ \E p2 \in (p1 + Len(pieces[1]))..(Len(text) + 1) :
             /\ OccursAt(pieces[2], text, p2)
             /\ \E p3 \in (p2 + Len(pieces[2]))..(Len(text) + 1) :
                   /\ OccursAt(pieces[3], text, p3)
                   /\ \E p4 \in (p3 + Len(pieces[3]))..(Len(text) + 1) :
                         /\ OccursAt(pieces[4], text, p4)
                         /\ \E p5 \in (p4 + Len(pieces[4]))..(Len(text) + 1) :
                               OccursAt(pieces[5], text, p5)

\* The five parts the rendered text of frame f has to contain.
Pieces(f) == <<f.msg, f.file, DecimalForm(f.line), f.func, PACKAGE_BUGREPORT>>

(***************************************************************************)
(* Claims                                                                  *)
(***************************************************************************)

\* C1: for every (message, file, line, func) with line >= 0, empty strings
\* and embedded newlines included, the rendered text of the violation is
\* exactly 'Internal bug detected: "' message '"\n' file ':' decimal(line)
\* ' (' func ')\nPlease report this issue here: ' bug-report constant '\n'.
C1_RenderedTextExact ==
    \A t \in Threads :
       Holding(t) /\ frame[t].line >= 0 => frame[t].what = ViolationText(frame[t])

\* C1 witness: a violation with an embedded newline in the message and empty
\* file and function names has been constructed.
C1_Witness ==
    \E t \in Threads :
       /\ Holding(t)
       /\ frame[t].msg = S_a_nl_pct_s
       /\ frame[t].file = S_empty
       /\ frame[t].func = S_empty
       /\ frame[t].what = ViolationText(frame[t])

\* C2 as stated: the diagnostic assertion_fail hands to fwrite, and that
\* reaches standard error when the write is complete, is
\* file ':' decimal(line) ' ' func ": Assertion '" assertionText "' failed.\n",
\* the assertion text between two straight single quotes.
C2_StraightQuotes ==
    \A t \in Threads :
       /\ Wrote(t) => frame[t].str = AssertionText(frame[t], "'", "'")
       /\ OnlyFullWriter(t) => stderr = AssertionText(frame[t], "'", "'")

\* C2 amended: the same diagnostic, the assertion text between a backtick
\* and a straight single quote.
C2_BacktickQuote ==
    \A t \in Threads :
       /\ Wrote(t) => frame[t].str = AssertionText(frame[t], Backtick, "'")
       /\ OnlyFullWriter(t) => stderr = AssertionText(frame[t], Backtick, "'")

\* C2 witness: assertion_fail("pool.cc", 77, "Pool::release", "refcount > 0")
\* has put "pool.cc:77 Pool::release: Assertion `refcount > 0' failed.\n" on
\* standard error.
C2_Witness ==
    \E t \in Threads :
       /\ OnlyFullWriter(t)
       /\ frame[t].file = S_pool_cc
       /\ frame[t].line = 77
       /\ frame[t].func = S_Pool_release
       /\ frame[t].assertion = S_refcount_gt_0
       /\ stderr =
            <<"p", "o", "o", "l", ".", "c", "c", ":", "7", "7", " ",
              "P", "o", "o", "l", ":", ":", "r", "e", "l", "e", "a", "s", "e", ":", " ",
              "A", "s", "s", "e", "r", "t", "i", "o", "n", " ",
              Backtick, "r", "e", "f", "c", "o", "u", "n", "t", " ", ">", " ", "0", "'", " ",
              "f", "a", "i", "l", "e", "d", ".", "\n">>

\* C3: assertion_fail never returns to its caller: a thread that has entered
\* it never is back in the caller, and every execution that enters it ends
\* with the process terminated.
C3_NeverReturns ==
    /\ [][\A t \in Threads : InFatal(t) => pc'[t] # "caller"]_vars
    /\ \A t \in Threads : InFatal(t) ~> (process = "terminated")

\* C3 witness: the process was terminated by a call with empty strings and
\* line 0, and the calling thread is still inside assertion_fail.
C3_Witness ==
    \E t \in Threads :
       /\ aborter = {t}
       /\ process = "terminated"
       /\ InFatal(t)
       /\ frame[t].file = S_empty
       /\ frame[t].func = S_empty
       /\ frame[t].assertion = S_empty
       /\ frame[t].line = 0

\* C4: in assertion_fail the order is one fwrite of the complete diagnostic,
\* then the abort: no write has been issued before line 27, exactly one
\* write, of all of str, has been issued before the abort, and the process
\* is terminated by a thread in that position and by nothing else.
C4_WriteOnceThenAbort ==
    /\ \A t \in Threads :
          /\ pc[t] = "fwrite" => frame[t].nwrites = 0
          /\ pc[t] = "abort" =>
                /\ frame[t].nwrites = 1
                /\ frame[t].count = Len(frame[t].str)
                /\ frame[t].str = AssertionText(frame[t], Backtick, "'")
          /\ aborter = {t} => pc[t] = "abort" /\ frame[t].nwrites = 1
    /\ process = "terminated" <=> aborter # {}
    /\ process \in {"running", "terminated"}

\* C4 witness: a process terminated after exactly one complete write.
C4_Witness ==
    \E t \in Threads :
       /\ aborter = {t}
       /\ process = "terminated"
       /\ frame[t].nwrites = 1
       /\ frame[t].written = Len(frame[t].str)
       /\ stderr = frame[t].str

\* C5: when the write of the diagnostic failed or was short, assertion_fail
\* still aborts: the thread neither returns nor writes again, and the
\* process ends terminated.
C5_AbortDespiteFailedWrite ==
    /\ [][\A t \in Threads :
             Wrote(t) /\ frame[t].written < frame[t].count
                => pc'[t] = "abort" /\ frame'[t] = frame[t]]_vars
    /\ \A t \in Threads :
          (Wrote(t) /\ frame[t].written < frame[t].count) ~> (process = "terminated")

\* C5 witness: the process was aborted by a thread whose write delivered
\* nothing at all.
C5_Witness ==
    \E t \in Threads :
       /\ aborter = {t}
       /\ process = "terminated"
       /\ frame[t].nwrites = 1
       /\ frame[t].written = 0
       /\ frame[t].count > 0
       /\ stderr = <<>>

\* C6: a process ended by assertion_fail has the abnormal status of an
\* abort, never the status of a clean exit.
C6_AbnormalStatus ==
    /\ process = "terminated" => exitStatus = "SIGABRT"
    /\ exitStatus # "EXIT_SUCCESS"
    /\ process = "running" => exitStatus = "none"

\* C6 witness: a process terminated through assertion_fail, with its status.
C6_Witness ==
    /\ process = "terminated"
    /\ exitStatus = "SIGABRT"
    /\ \E t \in Threads : aborter = {t} /\ frame[t].op = "assertion_fail"

\* C7 as stated: for line >= 0 the rendered text contains message, file, the
\* decimal form of line, func and the bug-report constant, each exactly once
\* and in that order.
C7_EachExactlyOnce ==
    \A t \in Threads :
       Holding(t) /\ frame[t].line >= 0 =>
          /\ InOrder(Pieces(frame[t]), frame[t].what)
          /\ \A k \in 1..5 : Occurrences(Pieces(frame[t])[k], frame[t].what) = 1

\* C7 amended: for line >= 0 the rendered text contains message, file, the
\* decimal form of line, func and the bug-report constant one after the
\* other in that order, without overlap.
C7_ContainsInOrder ==
    \A t \in Threads :
       Holding(t) /\ frame[t].line >= 0 => InOrder(Pieces(frame[t]), frame[t].what)

\* C7 witness: the violation of scenario A has been constructed; its file
\* "pool.cc" does not occur in its message "pool size negative".
C7_Witness ==
    \E t \in Threads :
       /\ Holding(t)
       /\ frame[t].msg = S_pool_size_negative
       /\ frame[t].file = S_pool_cc
       /\ frame[t].line = 42
       /\ frame[t].func = S_Pool_take
       /\ InOrder(Pieces(frame[t]), frame[t].what)

C9_ConstructionHasNoSideEffect ==
    [][/\ \A t \in Threads :
             frame'[t] # frame[t] /\ frame'[t].op = "NonFatalCheckError" =>
                /\ stderr' = stderr
                /\ process' = "running"
                /\ exitStatus' = exitStatus
                /\ aborter' = aborter
                /\ pc'[t] = "caller"
       /\ stderr' # stderr => \E t \in Threads : pc[t] = "fwrite" /\ pc'[t] = "abort"
       /\ process' # process => \E t \in Threads : pc[t] = "abort" /\ aborter' = {t}
      ]_vars

\* C9 witness: a violation is held by a running thread while standard error
\* is still empty.
C9_Witness ==
    \E t \in Threads :
       /\ Holding(t)
       /\ frame[t].what # <<>>
       /\ stderr = <<>>
       /\ process = "running"
       /\ exitStatus = "none"

\* C10: under every interleaving of the threads, once a thread executes the
\* abort the process is terminated and no thread takes a further step, and
\* a construction that completes yields the text of its own arguments and
\* changes no other thread.
C10_AbortIsGlobal ==
    [][/\ process = "terminated" => UNCHANGED vars
       /\ aborter' # aborter => process' = "terminated"
       /\ \A t \in Threads :
             frame'[t] # frame[t] /\ frame'[t].op = "NonFatalCheckError" =>
                /\ frame'[t].what = ViolationText(frame'[t])
                /\ \A u \in Threads \ {t} : frame'[u] = frame[u] /\ pc'[u] = pc[u]
      ]_vars

\* C10 witness: the process is terminated by one thread while another thread
\* inside assertion_fail has not issued its write.
C10_Witness ==
    \E t, u \in Threads :
       /\ t # u
       /\ aborter = {t}
       /\ process = "terminated"
       /\ pc[u] = "fwrite"
       /\ frame[u].nwrites = 0


====
